---- MODULE Spec2Model ----
(***************************************************************************)
(* Model of the safari image pipeline of animal_id: the multi-model        *)
(* predictor, the score aggregator and the threshold gate of               *)
(* SafariImageProcessor (image_processor.py), with the static              *)
(* configuration of config.py.                                             *)
(*                                                                         *)
(* Strings that the code inspects character by character (raw labels and   *)
(* keywords) are tuples of one-character strings.  Confidences are exact   *)
(* rationals counted in units of 1/1200, so that 1.0 is 1200 and the       *)
(* configured thresholds 0.3, 0.35, 0.4 and 0.15 are 360, 420, 480, 180.   *)
(* Input confidences are multiples of 6 units, which makes the mean of one,*)
(* two or three of them an integer.                                        *)
(***************************************************************************)
EXTENDS Integers, Sequences, FiniteSets, TLC

VARIABLES
  predictions_combined,  \* _predict_animal: list of (label, conf) collected
  pred_scores,           \* _predict_animal: dict category -> list of conf
  final_predictions,     \* _predict_animal: dict category -> mean of top 3
  animal_result,         \* value returned by _predict_animal
  phase,                 \* how far the last _predict_animal call got
  classifier,            \* what each animal classifier does on the current image
  landscape_classifier,  \* what the landscape classifier does on the current image
  accepted,              \* value of the threshold test of process_single_image
  pc,                    \* position in process_images / process_single_image
  image_files,           \* process_images: the list built from glob
  img_index,             \* process_images: position of the for loop
  results,               \* process_images: the list of result dicts
  cur,                   \* process_single_image: the result dict being filled
  processed_count,       \* self.processed_count
  source_files,          \* names present in source_dir
  backup_files,          \* names present in backup_dir
  tagged_files,          \* names in source_dir that carry the metadata comment
  step_failures,         \* per finished image: which steps ran and which failed
  previous_call,         \* what an earlier aggregation of the same list produced
  preview_accepted,      \* image_tester.py: the accepted flag of the preview
  landscape_predictions, \* _predict_landscape: the decoded top predictions
  detected_features      \* _predict_landscape: the list it returns

aggVars == <<predictions_combined, pred_scores, final_predictions,
             animal_result, phase>>

pipelineVars == <<classifier, landscape_classifier, pc, image_files, img_index,
                  results, cur, processed_count, source_files, backup_files,
                  tagged_files, step_failures>>

callVars == <<previous_call, preview_accepted, landscape_predictions,
              detected_features>>

vars == <<aggVars, accepted, pipelineVars, callVars>>

----------------------------------------------------------------------------
(* Units and small helpers *)

One == 1200

None == "None"

Min(a, b) == IF a < b THEN a ELSE b

RECURSIVE SeqSum(_)
SeqSum(s) == IF s = <<>> THEN 0 ELSE Head(s) + SeqSum(Tail(s))

----------------------------------------------------------------------------
(* str.lower() and the substring operator `in` *)

UpperCase == <<"A","B","C","D","E","F","G","H","I","J","K","L","M",
               "N","O","P","Q","R","S","T","U","V","W","X","Y","Z">>
LowerCase == <<"a","b","c","d","e","f","g","h","i","j","k","l","m",
               "n","o","p","q","r","s","t","u","v","w","x","y","z">>

LowerChar(ch) ==
  IF \E i \in 1..Len(UpperCase) : UpperCase[i] = ch
  THEN LowerCase[CHOOSE i \in 1..Len(UpperCase) : UpperCase[i] = ch]
  ELSE ch

Lower(s) == [i \in 1..Len(s) |-> LowerChar(s[i])]

\* needle in hay
Contains(hay, needle) ==
  \E i \in 0..(Len(hay) - Len(needle)) :
     SubSeq(hay, i + 1, i + Len(needle)) = needle

----------------------------------------------------------------------------
(* config.py *)

ANIMAL_CATEGORIES ==
  <<
    [category |-> "ostrich", similar_labels |-> <<
       <<"o","s","t","r","i","c","h">>,
       <<"c","o","m","m","o","n","_","o","s","t","r","i","c","h">>,
       <<"A","f","r","i","c","a","n","_","o","s","t","r","i","c","h">>
    >>],
    [category |-> "bird", similar_labels |-> <<
       <<"b","i","r","d">>,
       <<"c","r","a","n","e">>,
       <<"p","e","a","c","o","c","k">>,
       <<"h","o","r","n","b","i","l","l">>,
       <<"v","u","l","t","u","r","e">>,
       <<"e","a","g","l","e">>,
       <<"b","u","s","t","a","r","d">>,
       <<"s","t","o","r","k">>
    >>],
    [category |-> "elephant", similar_labels |-> <<
       <<"e","l","e","p","h","a","n","t">>,
       <<"A","f","r","i","c","a","n","_","e","l","e","p","h","a","n","t">>,
       <<"I","n","d","i","a","n","_","e","l","e","p","h","a","n","t">>,
       <<"t","u","s","k","e","r">>
    >>],
    [category |-> "monkey", similar_labels |-> <<
       <<"m","o","n","k","e","y">>,
       <<"m","a","c","a","q","u","e">>,
       <<"b","a","b","o","o","n">>,
       <<"c","h","i","m","p","a","n","z","e","e">>,
       <<"g","o","r","i","l","l","a">>,
       <<"o","r","a","n","g","u","t","a","n">>,
       <<"l","a","n","g","u","r">>,
       <<"c","o","l","o","b","u","s">>
    >>],
    [category |-> "giraffe", similar_labels |-> <<
       <<"g","i","r","a","f","f","e">>,
       <<"r","e","t","i","c","u","l","a","t","e","d","_","g","i","r","a","f","f","e">>
    >>],
    [category |-> "zebra", similar_labels |-> <<
       <<"z","e","b","r","a">>,
       <<"p","l","a","i","n","s","_","z","e","b","r","a">>,
       <<"G","r","e","v","y","_","z","e","b","r","a">>
    >>],
    [category |-> "lion", similar_labels |-> <<
       <<"l","i","o","n">>,
       <<"m","a","l","e","_","l","i","o","n">>,
       <<"l","i","o","n","e","s","s">>,
       <<"A","f","r","i","c","a","n","_","l","i","o","n">>
    >>],
    [category |-> "lion_cub", similar_labels |-> <<
       <<"l","i","o","n","_","c","u","b">>,
       <<"c","u","b">>,
       <<"y","o","u","n","g","_","l","i","o","n">>,
       <<"c","a","t","_","b","a","b","y">>
    >>],
    [category |-> "leopard", similar_labels |-> <<
       <<"l","e","o","p","a","r","d">>,
       <<"s","p","o","t","t","e","d","_","l","e","o","p","a","r","d">>
    >>],
    [category |-> "cheetah", similar_labels |-> <<
       <<"c","h","e","e","t","a","h">>,
       <<"s","p","o","t","t","e","d","_","c","a","t">>,
       <<"r","u","n","n","i","n","g","_","c","a","t">>
    >>],
    [category |-> "buffalo", similar_labels |-> <<
       <<"b","u","f","f","a","l","o">>,
       <<"A","f","r","i","c","a","n","_","b","u","f","f","a","l","o">>,
       <<"w","a","t","e","r","_","b","u","f","f","a","l","o">>,
       <<"c","a","p","e","_","b","u","f","f","a","l","o">>
    >>],
    [category |-> "antelope", similar_labels |-> <<
       <<"a","n","t","e","l","o","p","e">>,
       <<"g","a","z","e","l","l","e">>,
       <<"i","m","p","a","l","a">>,
       <<"k","u","d","u">>,
       <<"s","p","r","i","n","g","b","o","k">>,
       <<"g","e","m","s","b","o","k">>,
       <<"o","r","y","x">>
    >>],
    [category |-> "wildebeest", similar_labels |-> <<
       <<"w","i","l","d","e","b","e","e","s","t">>,
       <<"g","n","u">>,
       <<"b","l","u","e","_","w","i","l","d","e","b","e","e","s","t">>
    >>],
    [category |-> "hippopotamus", similar_labels |-> <<
       <<"h","i","p","p","o","p","o","t","a","m","u","s">>,
       <<"h","i","p","p","o">>,
       <<"r","i","v","e","r","_","h","o","r","s","e">>
    >>],
    [category |-> "crocodile", similar_labels |-> <<
       <<"c","r","o","c","o","d","i","l","e">>,
       <<"N","i","l","e","_","c","r","o","c","o","d","i","l","e">>,
       <<"a","l","l","i","g","a","t","o","r">>
    >>],
    [category |-> "hyena", similar_labels |-> <<
       <<"h","y","e","n","a">>,
       <<"s","p","o","t","t","e","d","_","h","y","e","n","a">>,
       <<"s","t","r","i","p","e","d","_","h","y","e","n","a">>
    >>]
  >>

LANDSCAPE_CATEGORIES ==
  <<
    [category |-> "river", similar_labels |-> <<
       <<"r","i","v","e","r">>,
       <<"s","t","r","e","a","m">>,
       <<"w","a","t","e","r","f","a","l","l">>,
       <<"w","a","t","e","r","w","a","y">>,
       <<"c","r","e","e","k">>,
       <<"r","a","p","i","d","s">>
    >>],
    [category |-> "savannah", similar_labels |-> <<
       <<"s","a","v","a","n","n","a","h">>,
       <<"g","r","a","s","s","l","a","n","d">>,
       <<"p","l","a","i","n">>,
       <<"p","r","a","i","r","i","e">>,
       <<"v","e","l","d","t">>,
       <<"s","t","e","p","p","e">>
    >>],
    [category |-> "forest", similar_labels |-> <<
       <<"f","o","r","e","s","t">>,
       <<"w","o","o","d","l","a","n","d">>,
       <<"j","u","n","g","l","e">>,
       <<"t","r","e","e","s">>,
       <<"r","a","i","n","f","o","r","e","s","t">>,
       <<"g","r","o","v","e">>
    >>],
    [category |-> "bush", similar_labels |-> <<
       <<"b","u","s","h">>,
       <<"s","h","r","u","b","l","a","n","d">>,
       <<"t","h","i","c","k","e","t">>,
       <<"s","c","r","u","b">>,
       <<"b","r","u","s","h">>,
       <<"u","n","d","e","r","g","r","o","w","t","h">>
    >>],
    [category |-> "mountain", similar_labels |-> <<
       <<"m","o","u","n","t","a","i","n">>,
       <<"h","i","l","l">>,
       <<"c","l","i","f","f">>,
       <<"r","i","d","g","e">>,
       <<"p","e","a","k">>,
       <<"h","i","g","h","l","a","n","d">>
    >>],
    [category |-> "wetland", similar_labels |-> <<
       <<"w","e","t","l","a","n","d">>,
       <<"m","a","r","s","h">>,
       <<"s","w","a","m","p">>,
       <<"b","o","g">>,
       <<"f","e","n">>,
       <<"m","a","n","g","r","o","v","e">>
    >>],
    [category |-> "desert", similar_labels |-> <<
       <<"d","e","s","e","r","t">>,
       <<"d","u","n","e">>,
       <<"s","a","n","d">>,
       <<"a","r","i","d">>,
       <<"w","a","s","t","e","l","a","n","d">>
    >>],
    [category |-> "lake", similar_labels |-> <<
       <<"l","a","k","e">>,
       <<"p","o","n","d">>,
       <<"r","e","s","e","r","v","o","i","r">>,
       <<"l","a","g","o","o","n">>,
       <<"w","a","t","e","r","_","b","o","d","y">>
    >>],
    [category |-> "valley", similar_labels |-> <<
       <<"v","a","l","l","e","y">>,
       <<"g","o","r","g","e">>,
       <<"r","a","v","i","n","e">>,
       <<"c","a","n","y","o","n">>,
       <<"d","e","p","r","e","s","s","i","o","n">>
    >>]
  >>

CONFIDENCE_THRESHOLDS ==
  [lion_cub |-> 360, bird |-> 480, default |-> 420, landscape |-> 180]

Categories == {ANIMAL_CATEGORIES[k].category : k \in 1..Len(ANIMAL_CATEGORIES)}

----------------------------------------------------------------------------
(* Raw labels the classifiers of the model can report *)

AggLabels ==
  { <<"l","i","o","n">>,
    <<"l","i","o","n","_","c","u","b">>,
    <<"t","i","g","e","r">>,
    <<"A","f","r","i","c","a","n","_","e","l","e","p","h","a","n","t">> }

\* labels of the classes of the ImageNet classifiers that the model keeps
IMAGENET_LABELS ==
  <<
    <<"l","i","o","n">>,
    <<"A","f","r","i","c","a","n","_","e","l","e","p","h","a","n","t">>,
    <<"z","e","b","r","a">>,
    <<"o","s","t","r","i","c","h">>,
    <<"b","a","l","d","_","e","a","g","l","e">>,
    <<"c","h","e","e","t","a","h">>,
    <<"h","y","e","n","a">>,
    <<"h","i","p","p","o","p","o","t","a","m","u","s">>,
    <<"t","i","g","e","r">>,
    <<"v","a","l","l","e","y">>,
    <<"l","a","k","e","s","i","d","e">>,
    <<"c","l","i","f","f">>,
    <<"s","a","n","d","b","a","r">>,
    <<"a","l","p">>,
    <<"s","e","a","s","h","o","r","e">>,
    <<"v","o","l","c","a","n","o">>,
    <<"j","e","e","p">>,
    <<"m","o","u","n","t","a","i","n","_","t","e","n","t">>
  >>

NumClasses == Len(IMAGENET_LABELS)

KnownLabels == AggLabels \cup {IMAGENET_LABELS[c] : c \in 1..NumClasses}

----------------------------------------------------------------------------
(* The score aggregator of _predict_animal.  A Python dict is a sequence   *)
(* of entries in insertion order, which is the order .items() iterates.    *)

HasKey(d, key) == \E i \in 1..Len(d) : d[i].category = key

\* similar in label.lower()
KeywordInLabel(similar, label) == Contains(Lower(label), similar)

\* any(similar in label.lower() for similar in similar_labels)
LabelMatches(label, similar_labels) ==
  \E j \in 1..Len(similar_labels) : KeywordInLabel(similar_labels[j], label)

\* The value of the test above for each label the model uses and each entry
\* of ANIMAL_CATEGORIES, evaluated once.
LabelMatchTable ==
  [label \in KnownLabels |->
     [k \in 1..Len(ANIMAL_CATEGORIES) |->
        LabelMatches(label, ANIMAL_CATEGORIES[k].similar_labels)]]

\* if category not in pred_scores: pred_scores[category] = []
\* pred_scores[category].append(conf)
AppendScore(d, category, conf) ==
  IF HasKey(d, category)
  THEN LET i == CHOOSE j \in 1..Len(d) : d[j].category = category
       IN [d EXCEPT ![i].scores = Append(@, conf)]
  ELSE Append(d, [category |-> category, scores |-> <<conf>>])

\* how many keywords of the entry k of ANIMAL_CATEGORIES the test of line 73
\* finds in each label
KeywordsFound ==
  [label \in KnownLabels |->
     [k \in 1..Len(ANIMAL_CATEGORIES) |->
        Cardinality({j \in 1..Len(ANIMAL_CATEGORIES[k].similar_labels) :
                       KeywordInLabel(ANIMAL_CATEGORIES[k].similar_labels[j], label)})]]

RECURSIVE AppendScoreTimes(_, _, _, _)
AppendScoreTimes(d, category, conf, n) ==
  IF n = 0 THEN d
  ELSE AppendScoreTimes(AppendScore(d, category, conf), category, conf, n - 1)

\* the confidence is appended once for every keyword found in the label
RECURSIVE ScanCategoriesPerKeyword(_, _, _)
ScanCategoriesPerKeyword(d, pred, k) ==
  IF k > Len(ANIMAL_CATEGORIES) THEN d
  ELSE ScanCategoriesPerKeyword(
         AppendScoreTimes(d, ANIMAL_CATEGORIES[k].category, pred.conf,
                          KeywordsFound[pred.label][k]),
         pred, k + 1)

\* for category, similar_labels in self.animal_categories.items(): ...
RECURSIVE ScanCategories(_, _, _)
ScanCategories(d, pred, k) ==
  IF k > Len(ANIMAL_CATEGORIES) THEN d
  ELSE ScanCategories(
         IF LabelMatchTable[pred.label][k]
         THEN AppendScore(d, ANIMAL_CATEGORIES[k].category, pred.conf)
         ELSE d,
         pred, k + 1)

\* for _, label, conf in predictions_combined: ... for the predictions at
\* the positions lo..hi in their order: the first half, then the second
RECURSIVE ScanPredictions(_, _, _, _)
ScanPredictions(d, preds, lo, hi) ==
  IF lo > hi THEN d
  ELSE IF lo = hi THEN ScanCategories(d, preds[lo], 1)
  ELSE LET mid == (lo + hi) \div 2
           scanned == ScanPredictions(d, preds, lo, mid)
       IN \* the dict after the first half is evaluated before the second
          IF scanned = <<>>
          THEN ScanPredictions(<<>>, preds, mid + 1, hi)
          ELSE ScanPredictions(scanned, preds, mid + 1, hi)

\* pred_scores starts with an empty list for every category
PredScoresPrefilled(preds) ==
  ScanPredictions([k \in 1..Len(ANIMAL_CATEGORIES) |->
                     [category |-> ANIMAL_CATEGORIES[k].category, scores |-> <<>>]],
                  preds, 1, Len(preds))

\* pred_scores = {} and the loop of lines 71-76
PredScores(preds) == ScanPredictions(<<>>, preds, 1, Len(preds))

\* sorted(scores, reverse=True): a stable descending insertion sort
RECURSIVE InsertDesc(_, _)
InsertDesc(sorted, x) ==
  IF sorted = <<>> THEN <<x>>
  ELSE IF Head(sorted) >= x
       THEN <<Head(sorted)>> \o InsertDesc(Tail(sorted), x)
       ELSE <<x>> \o sorted

RECURSIVE SortedDesc(_)
SortedDesc(s) ==
  IF s = <<>> THEN <<>>
  ELSE InsertDesc(SortedDesc(SubSeq(s, 1, Len(s) - 1)), s[Len(s)])

\* the slice [:3] left out: every score is kept
TopScoresUncapped(scores) == SortedDesc(scores)

\* sorted(scores, reverse=True)[:3]
TopScores(scores) ==
  LET sorted == SortedDesc(scores) IN SubSeq(sorted, 1, Min(3, Len(sorted)))

\* the sum, not divided by the number of scores
MeanNotDivided(s) == SeqSum(s)

\* np.mean(top_scores)
Mean(s) == SeqSum(s) \div Len(s)

\* for category, scores in pred_scores.items(): ... final_predictions[category] = ...
RECURSIVE FinalPredictions(_, _)
FinalPredictions(d, i) ==
  IF i > Len(d) THEN <<>>
  ELSE LET top_scores == TopScores(d[i].scores)
           rest == FinalPredictions(d, i + 1)
       IN IF top_scores # <<>>
          THEN <<[category |-> d[i].category, score |-> Mean(top_scores)]>> \o rest
          ELSE rest

\* a later item replaces the best one already on an equal key
RECURSIVE MaxItemLast(_, _, _)
MaxItemLast(items, best, i) ==
  IF i > Len(items) THEN best
  ELSE MaxItemLast(items, IF items[i].score >= best.score THEN items[i] ELSE best,
                   i + 1)

\* max(final_predictions.items(), key=lambda x: x[1]): the first item whose
\* key is not exceeded by any later one that replaces it
RECURSIVE MaxItem(_, _, _)
MaxItem(items, best, i) ==
  IF i > Len(items) THEN best
  ELSE MaxItem(items, IF items[i].score > best.score THEN items[i] ELSE best, i + 1)

NoResult == [category |-> None, confidence |-> 0]

\* a best category is returned only when at least two categories compete
BestPredictionOfSeveral(fp) ==
  IF Len(fp) > 1
  THEN LET best_category == MaxItem(fp, fp[1], 2)
       IN [category |-> best_category.category, confidence |-> best_category.score]
  ELSE [category |-> None, confidence |-> 0]

\* if final_predictions: return best; return None, 0.0
BestPrediction(fp) ==
  IF fp # <<>>
  THEN LET best_category == MaxItem(fp, fp[1], 2)
       IN [category |-> best_category.category, confidence |-> best_category.score]
  ELSE NoResult

----------------------------------------------------------------------------
(* The classifiers.  model.predict returns one score vector over the       *)
(* classes per image of the batch; decode_predictions keeps the `top`      *)
(* classes of highest score, highest first.                                *)

Models == <<"resnet", "efficient", "dense">>

Variants == <<"identity", "flip", "brightness", "contrast">>

AnimalTop == 10

LandscapeTop == 15

\* the classes of pred that decode_predictions has not yet taken, best first
RECURSIVE TopClasses(_, _, _)
TopClasses(pred, remaining, top) ==
  IF top = 0 \/ remaining = {} THEN <<>>
  ELSE LET best == CHOOSE c \in remaining :
                     \A d \in remaining :
                        \/ pred[d] < pred[c]
                        \/ pred[d] = pred[c] /\ d <= c
       IN <<best>> \o TopClasses(pred, remaining \ {best}, top - 1)

\* decode_predictions(np.expand_dims(pred, 0), top=top)[0], without the class id
DecodePredictions(pred, top) ==
  LET classes == TopClasses(pred, DOMAIN pred, top)
  IN [i \in 1..Len(classes) |->
        [label |-> IMAGENET_LABELS[classes[i]], conf |-> pred[classes[i]]]]

\* Score vectors of model.predict, one score per class in the order of
\* IMAGENET_LABELS (softmax scores, their sum is at most 1).  A sharp vector
\* gives 0.5 to its first class, a flat one 0.25, 0.2 and 0.16 to its first
\* three; the scores of the ranks 10 and 11, and 15 and 16, differ.
\* by falling score: lion, cheetah, tiger, hyena, six sceneries, African_elephant, ...
LionSharp ==
  <<600, 12, 12, 12, 12, 120, 54, 12, 60, 48, 42, 36, 30, 24, 18, 6, 6, 6>>

\* by falling score: lion, cheetah, tiger, hyena, six sceneries, African_elephant, ...
LionFlat ==
  <<300, 24, 24, 24, 24, 240, 66, 24, 192, 60, 54, 48, 42, 36, 30, 6, 6, 0>>

\* by falling score: African_elephant, lakeside, lion, valley, six sceneries, zebra, ...
ElephantFlat ==
  <<192, 300, 24, 24, 24, 24, 24, 6, 6, 66, 240, 60, 54, 48, 42, 36, 30, 0>>

\* by falling score: valley, lakeside, cliff, six more sceneries, tiger, lion, ...
SceneSharp ==
  <<12, 12, 12, 12, 12, 6, 6, 6, 18, 600, 120, 60, 54, 48, 42, 36, 30, 24>>

\* by falling score: valley, lakeside, cliff, six more sceneries, tiger, lion, ...
SceneFlat ==
  <<24, 24, 24, 24, 24, 6, 6, 0, 30, 300, 240, 192, 66, 60, 54, 48, 42, 36>>

\* A classifier run on the batch of the variants of an image either raises
\* or returns one score vector per image of the batch.  The behaviours that
\* the model lets a classifier show are named.
Raises == [raised |-> TRUE, preds |-> <<>>]

Returns(preds) == [raised |-> FALSE, preds |-> preds]

ClassifierOutcome ==
  [raises |-> Raises,
   lion |-> Returns(<<LionSharp, LionSharp, LionFlat, LionSharp>>),
   mixed |-> Returns(<<ElephantFlat, SceneSharp, ElephantFlat, LionFlat>>),
   scene |-> Returns(<<SceneSharp, SceneSharp, SceneFlat, SceneSharp>>)]

ModelNames == {Models[m] : m \in 1..Len(Models)}

ClassifierBehaviours == [ModelNames -> DOMAIN ClassifierOutcome]

LandscapeOutcome ==
  [raises |-> Raises,
   scene |-> Returns(<<SceneFlat>>),
   lion |-> Returns(<<LionSharp>>)]

NotAsked == "not_asked"

----------------------------------------------------------------------------
(* _predict_animal, lines 39-94 *)

\* only the first score vector of the batch is decoded
ExtendWithFirstDecoded(combined, preds, i) ==
  combined \o DecodePredictions(preds[1], AnimalTop)

\* for pred in preds: predictions_combined.extend(decode_predictions(...))
RECURSIVE ExtendWithDecoded(_, _, _)
ExtendWithDecoded(combined, preds, i) ==
  IF i > Len(preds) THEN combined
  ELSE ExtendWithDecoded(combined \o DecodePredictions(preds[i], AnimalTop),
                         preds, i + 1)

\* for model_name in ['resnet', 'efficient', 'dense']: an exception raised
\* by a model leaves the loop and the try block
RECURSIVE RunModels(_, _, _)
RunModels(behaviour, combined, m) ==
  IF m > Len(Models) THEN [raised |-> FALSE, predictions_combined |-> combined]
  ELSE IF ClassifierOutcome[behaviour[Models[m]]].raised
       THEN [raised |-> TRUE, predictions_combined |-> combined]
       ELSE RunModels(behaviour,
                      ExtendWithDecoded(combined,
                                        ClassifierOutcome[behaviour[Models[m]]].preds, 1),
                      m + 1)

\* when a classifier raises, what was collected before it is aggregated
PredictAnimalCallKeepsPartial(behaviour) ==
  LET run == RunModels(behaviour, <<>>, 1)
      scores == PredScores(run.predictions_combined)
      final == FinalPredictions(scores, 1)
  IN [predictions_combined |-> run.predictions_combined,
      pred_scores |-> scores, final_predictions |-> final,
      result |-> BestPrediction(final),
      phase |-> IF run.raised THEN "raised" ELSE "aggregated"]

\* the whole call: the locals it leaves behind and the value it returns
PredictAnimalCall(behaviour) ==
  LET run == RunModels(behaviour, <<>>, 1)
      scores == PredScores(run.predictions_combined)
      final == FinalPredictions(scores, 1)
  IN IF run.raised
     THEN [predictions_combined |-> run.predictions_combined,
           pred_scores |-> <<>>, final_predictions |-> <<>>,
           result |-> NoResult, phase |-> "raised"]
     ELSE [predictions_combined |-> run.predictions_combined,
           pred_scores |-> scores, final_predictions |-> final,
           result |-> BestPrediction(final), phase |-> "aggregated"]

\* the call evaluated once for each behaviour of the classifiers
PredictAnimalCalls ==
  [resnet \in DOMAIN ClassifierOutcome |->
     [efficient \in DOMAIN ClassifierOutcome |->
        [dense \in DOMAIN ClassifierOutcome |->
           PredictAnimalCall([resnet |-> resnet, efficient |-> efficient,
                              dense |-> dense])]]]

----------------------------------------------------------------------------
(* _predict_landscape, lines 96-127 *)

\* label = label.lower(); any(keyword in label for keyword in keywords)
LandscapeLabelMatches(label, keywords) ==
  \E j \in 1..Len(keywords) : Contains(Lower(label), keywords[j])

LandscapeMatchTable ==
  [label \in KnownLabels |->
     [k \in 1..Len(LANDSCAPE_CATEGORIES) |->
        LandscapeLabelMatches(label, LANDSCAPE_CATEGORIES[k].similar_labels)]]

InList(list, x) == \E i \in 1..Len(list) : list[i] = x

\* a category is also added when the confidence equals the threshold
RECURSIVE ScanLandscapeCategoriesFromThreshold(_, _, _)
ScanLandscapeCategoriesFromThreshold(detected, pred, k) ==
  IF k > Len(LANDSCAPE_CATEGORIES) THEN detected
  ELSE ScanLandscapeCategoriesFromThreshold(
         IF /\ LandscapeMatchTable[pred.label][k]
            /\ pred.conf >= CONFIDENCE_THRESHOLDS["landscape"]
            /\ ~InList(detected, LANDSCAPE_CATEGORIES[k].category)
         THEN Append(detected, LANDSCAPE_CATEGORIES[k].category)
         ELSE detected,
         pred, k + 1)

\* for category, keywords in self.landscape_categories.items(): ...
RECURSIVE ScanLandscapeCategories(_, _, _)
ScanLandscapeCategories(detected, pred, k) ==
  IF k > Len(LANDSCAPE_CATEGORIES) THEN detected
  ELSE ScanLandscapeCategories(
         IF /\ LandscapeMatchTable[pred.label][k]
            /\ pred.conf > CONFIDENCE_THRESHOLDS["landscape"]
            /\ ~InList(detected, LANDSCAPE_CATEGORIES[k].category)
         THEN Append(detected, LANDSCAPE_CATEGORIES[k].category)
         ELSE detected,
         pred, k + 1)

\* for pred_class, label, confidence in predictions: ...
RECURSIVE ScanLandscapePredictions(_, _, _)
ScanLandscapePredictions(detected, preds, i) ==
  IF i > Len(preds) THEN detected
  ELSE LET scanned == ScanLandscapeCategories(detected, preds[i], 1)
       IN \* the list of this iteration is evaluated before the next one
          IF scanned = <<>>
          THEN ScanLandscapePredictions(<<>>, preds, i + 1)
          ELSE ScanLandscapePredictions(scanned, preds, i + 1)

\* the whole call: [] when the classifier raises (lines 125-127)
PredictLandscapeCall(outcome) ==
  IF LandscapeOutcome[outcome].raised THEN <<>>
  ELSE ScanLandscapePredictions(
         <<>>, DecodePredictions(LandscapeOutcome[outcome].preds[1], LandscapeTop), 1)

\* the call evaluated once for each behaviour of the landscape classifier
PredictLandscapeCalls ==
  [outcome \in DOMAIN LandscapeOutcome |-> PredictLandscapeCall(outcome)]

----------------------------------------------------------------------------
(* The threshold gate, lines 215-219 *)

\* CONFIDENCE_THRESHOLDS.get(animal_name, CONFIDENCE_THRESHOLDS['default'])
Threshold(animal_name) ==
  IF animal_name \in DOMAIN CONFIDENCE_THRESHOLDS
  THEN CONFIDENCE_THRESHOLDS[animal_name]
  ELSE CONFIDENCE_THRESHOLDS["default"]

\* the test also passes when the confidence equals the threshold
GateAcceptsFromThreshold(animal_name, confidence) ==
  animal_name # None /\ confidence >= Threshold(animal_name)

\* if animal_name and confidence > threshold
GateAccepts(animal_name, confidence) ==
  animal_name # None /\ confidence > Threshold(animal_name)

----------------------------------------------------------------------------
(* Files.  A name is a record: an original file has its number and suffix, *)
(* a generated name has the fields that _generate_new_filename formats.    *)

MaxImages == 2

SUPPORTED_EXTENSIONS ==
  { <<".","j","p","g">>, <<".","j","p","e","g">>, <<".","p","n","g">> }

Suffixes == << <<".","j","p","g">>, <<".","J","P","G">>, <<".","p","n","g">> >>

OriginalName(i, suffix) ==
  [original |-> i, animal |-> "", landscape |-> <<>>, timestamp |-> "",
   sequence |-> 0, suffix |-> suffix]

ImageFile(i) == OriginalName(i, Suffixes[((i - 1) % Len(Suffixes)) + 1])

NotesFile == OriginalName(0, <<".","t","x","t">>)

Timestamp == "20240101"

\* lines 129-141, given the incremented counter
NewFilename(original_path, animal_name, landscape_features, count) ==
  [original |-> 0,
   animal |-> animal_name,
   landscape |-> IF landscape_features # <<>> THEN landscape_features
                 ELSE <<"general">>,
   timestamp |-> Timestamp,
   sequence |-> count,
   suffix |-> Lower(original_path.suffix)]

\* the orders in which glob can list the files of a set
Orderings(S) ==
  {order \in [1..Cardinality(S) -> S] :
     \A i, j \in 1..Cardinality(S) : i # j => order[i] # order[j]}

----------------------------------------------------------------------------
(* process_single_image and process_images, lines 186-251.  An optional    *)
(* dict value is a sequence: <<>> is None, <<v>> is the value v.           *)

\* lines 189-197
FreshResults(img_path) ==
  [original_name |-> img_path, success |-> FALSE, new_name |-> <<>>,
   animal |-> None, confidence |-> <<>>, landscape_features |-> <<>>,
   error |-> None]

NoImage == OriginalName(-1, <<>>)

NoSteps ==
  [backup |-> "not_run", animal |-> "not_run", landscape |-> "not_run",
   gate |-> "not_run", tagging |-> "not_run", rename |-> "not_run"]

IdleAggregator ==
  /\ predictions_combined = <<>>
  /\ pred_scores = <<>>
  /\ final_predictions = <<>>
  /\ animal_result = NoResult
  /\ phase = "idle"

NoCall ==
  [called |-> FALSE, pred_scores |-> <<>>, final_predictions |-> <<>>,
   result |-> NoResult]

IdleCalls ==
  /\ previous_call = NoCall
  /\ preview_accepted = FALSE
  /\ landscape_predictions = <<>>
  /\ detected_features = <<>>

IdlePipeline ==
  /\ classifier = [m \in ModelNames |-> NotAsked]
  /\ landscape_classifier = NotAsked
  /\ pc = "idle"
  /\ image_files = <<>>
  /\ img_index = 1
  /\ results = <<>>
  /\ cur = FreshResults(NoImage)
  /\ processed_count = 0
  /\ source_files = {}
  /\ backup_files = {}
  /\ tagged_files = {}
  /\ step_failures = <<>>

\* the state after SafariImageProcessor.__init__ on a directory of images
Init ==
  /\ IdleAggregator
  /\ accepted = FALSE
  /\ classifier = [m \in ModelNames |-> NotAsked]
  /\ landscape_classifier = NotAsked
  /\ pc = "glob"
  /\ image_files = <<>>
  /\ img_index = 1
  /\ results = <<>>
  /\ cur = FreshResults(NoImage)
  /\ processed_count = 0
  /\ \E n \in 0..MaxImages :
        source_files = {ImageFile(i) : i \in 1..n} \cup {NotesFile}
  /\ backup_files = {}
  /\ tagged_files = {}
  /\ step_failures = <<>>
  /\ IdleCalls

\* the locals of the finished call are dropped
ForgetLocals ==
  /\ predictions_combined' = <<>>
  /\ pred_scores' = <<>>
  /\ final_predictions' = <<>>
  /\ animal_result' = NoResult
  /\ phase' = "idle"
  /\ classifier' = [m \in ModelNames |-> NotAsked]
  /\ landscape_classifier' = NotAsked
  /\ cur' = FreshResults(NoImage)

\* results.append(result) and the next turn of the loop of process_images
AppendResult(result, steps) ==
  /\ results' = Append(results, result)
  /\ step_failures' = Append(step_failures, steps)
  /\ img_index' = img_index + 1
  /\ pc' = "loop"

\* lines 241-246
Glob ==
  /\ pc = "glob"
  /\ \E order \in Orderings({f \in source_files :
                              Lower(f.suffix) \in SUPPORTED_EXTENSIONS}) :
        image_files' = order
  /\ pc' = "loop"
  /\ UNCHANGED <<aggVars, accepted, classifier, landscape_classifier, img_index,
                 results, cur, processed_count, source_files, backup_files,
                 tagged_files, step_failures, callVars>>

\* the value returned by _backup_image is not looked at: the call goes on
\* whether or not the copy was written
BackupUnchecked ==
  /\ pc = "loop"
  /\ img_index <= Len(image_files)
  /\ LET img_path == image_files[img_index] IN
     \E copied \in BOOLEAN :
        /\ backup_files' = IF copied THEN backup_files \cup {img_path}
                           ELSE backup_files
        /\ cur' = FreshResults(img_path)
        /\ pc' = "predict_animal"
  /\ UNCHANGED <<aggVars, classifier, landscape_classifier, results,
                 step_failures, img_index, accepted, image_files,
                 processed_count, source_files, tagged_files, callVars>>

\* lines 188-203 and 175-184: the copy succeeds, or it raises and the call
\* returns with "Backup failed"
Backup ==
  /\ pc = "loop"
  /\ img_index <= Len(image_files)
  /\ LET img_path == image_files[img_index] IN
     \E copied \in BOOLEAN :
        IF copied
        THEN /\ backup_files' = backup_files \cup {img_path}
             /\ cur' = FreshResults(img_path)
             /\ pc' = "predict_animal"
             /\ UNCHANGED <<aggVars, classifier, landscape_classifier,
                            results, step_failures, img_index>>
        ELSE /\ AppendResult([FreshResults(img_path) EXCEPT !.error = "Backup failed"],
                             [NoSteps EXCEPT !.backup = "failed"])
             /\ ForgetLocals
             /\ UNCHANGED backup_files
  /\ UNCHANGED <<accepted, image_files, processed_count, source_files, tagged_files,
                 callVars>>

\* line 206
PredictAnimal ==
  /\ pc = "predict_animal"
  /\ \E behaviour \in ClassifierBehaviours :
        LET call == PredictAnimalCalls[behaviour["resnet"]][behaviour["efficient"]]
                                      [behaviour["dense"]]
        IN
        /\ classifier' = behaviour
        /\ predictions_combined' = call.predictions_combined
        /\ pred_scores' = call.pred_scores
        /\ final_predictions' = call.final_predictions
        /\ animal_result' = call.result
        /\ phase' = call.phase
  /\ pc' = "predict_landscape"
  /\ UNCHANGED <<accepted, landscape_classifier, image_files, img_index, results,
                 cur, processed_count, source_files, backup_files, tagged_files,
                 step_failures, callVars>>

\* lines 207-213
PredictLandscape ==
  /\ pc = "predict_landscape"
  /\ \E outcome \in DOMAIN LandscapeOutcome :
        /\ landscape_classifier' = outcome
        /\ cur' = [cur EXCEPT !.animal = animal_result.category,
                              !.confidence = <<animal_result.confidence>>,
                              !.landscape_features = PredictLandscapeCalls[outcome]]
  /\ pc' = "gate"
  /\ UNCHANGED <<aggVars, accepted, classifier, image_files, img_index, results,
                 processed_count, source_files, backup_files, tagged_files,
                 step_failures, callVars>>

StepsSoFar ==
  [NoSteps EXCEPT
     !.backup = "ok",
     !.animal = IF phase = "raised" THEN "failed" ELSE "ok",
     !.landscape = IF LandscapeOutcome[landscape_classifier].raised
                   THEN "failed" ELSE "ok"]

\* the result dict of an accepted image after the rename was attempted
\* whether or not the rename raised
RenamedResultsAlways(results_dict, new_path, renamed) ==
  [results_dict EXCEPT !.new_name = <<new_path>>, !.success = TRUE]

\* lines 225-230 and 234-235: the result dict of an accepted image
RenamedResults(results_dict, new_path, renamed) ==
  IF renamed
  THEN [results_dict EXCEPT !.new_name = <<new_path>>, !.success = TRUE]
  ELSE [results_dict EXCEPT !.error = "rename raised"]

\* the counter is left as it was
CounterKept(count) == count

\* line 131: self.processed_count += 1
CounterIncremented(count) == count + 1

\* lines 215-230: the gate accepts; the counter is incremented, the file is
\* tagged (a failure is logged only) and renamed (a failure is caught at 234)
AcceptImage ==
  /\ pc = "gate"
  /\ GateAccepts(cur.animal, cur.confidence[1])
  /\ accepted' = TRUE
  /\ processed_count' = CounterIncremented(processed_count)
  /\ LET img_path == cur.original_name
         new_path == NewFilename(img_path, cur.animal, cur.landscape_features,
                                 processed_count')
     IN \E tagged \in BOOLEAN, renamed \in BOOLEAN :
          LET carries == tagged \/ img_path \in tagged_files IN
          /\ source_files' = IF renamed
                             THEN (source_files \ {img_path}) \cup {new_path}
                             ELSE source_files
          /\ tagged_files' = IF renamed
                             THEN IF carries
                                  THEN (tagged_files \ {img_path}) \cup {new_path}
                                  ELSE tagged_files \ {img_path, new_path}
                             ELSE IF carries
                                  THEN tagged_files \cup {img_path}
                                  ELSE tagged_files
          /\ AppendResult(RenamedResults(cur, new_path, renamed),
                          [StepsSoFar EXCEPT
                             !.gate = "accepted",
                             !.tagging = IF tagged THEN "ok" ELSE "failed",
                             !.rename = IF renamed THEN "ok" ELSE "failed"])
  /\ ForgetLocals
  /\ UNCHANGED <<image_files, backup_files, callVars>>

\* the result dict of a rejected image is returned as the predictions left it
RejectedResultsWithoutError(results_dict) == results_dict

\* lines 231-232: the result dict of a rejected image
RejectedResults(results_dict) ==
  [results_dict EXCEPT !.error = "Low confidence prediction"]

\* lines 215-219 and 231-232: the gate rejects
RejectImage ==
  /\ pc = "gate"
  /\ ~GateAccepts(cur.animal, cur.confidence[1])
  /\ accepted' = FALSE
  /\ AppendResult(RejectedResults(cur),
                  [StepsSoFar EXCEPT !.gate = "rejected"])
  /\ ForgetLocals
  /\ UNCHANGED <<image_files, processed_count, source_files, backup_files,
                 tagged_files, callVars>>

\* line 251
ReturnResults ==
  /\ pc = "loop"
  /\ img_index > Len(image_files)
  /\ pc' = "returned"
  /\ UNCHANGED <<aggVars, accepted, classifier, landscape_classifier, image_files,
                 img_index, results, cur, processed_count, source_files,
                 backup_files, tagged_files, step_failures, callVars>>

Next ==
  \/ Glob
  \/ Backup
  \/ PredictAnimal
  \/ PredictLandscape
  \/ AcceptImage
  \/ RejectImage
  \/ ReturnResults

Spec == Init /\ [][Next]_vars

----------------------------------------------------------------------------
(* A later run: a new processor, whose counter starts at 0 again, on a     *)
(* directory that an earlier run of the same date has processed.           *)

\* the names the earlier run gave to the images 1..renamed, which it took
\* in this order and accepted as lions without landscape features
RenamedByEarlierRun(renamed) ==
  {NewFilename(ImageFile(i), "lion", <<>>, i) : i \in 1..renamed}

\* the state after SafariImageProcessor.__init__ on such a directory: of its
\* n images the earlier run renamed the first ones and rejected the others
InitRerun ==
  /\ IdleAggregator
  /\ accepted = FALSE
  /\ classifier = [m \in ModelNames |-> NotAsked]
  /\ landscape_classifier = NotAsked
  /\ pc = "glob"
  /\ image_files = <<>>
  /\ img_index = 1
  /\ results = <<>>
  /\ cur = FreshResults(NoImage)
  /\ processed_count = 0
  /\ \E n \in 1..MaxImages : \E renamed \in 1..n : \E tagged \in BOOLEAN :
        /\ source_files = RenamedByEarlierRun(renamed)
                            \cup {ImageFile(i) : i \in (renamed + 1)..n}
                            \cup {NotesFile}
        /\ backup_files = {ImageFile(i) : i \in 1..n}
        /\ tagged_files = IF tagged THEN RenamedByEarlierRun(renamed) ELSE {}
  /\ step_failures = <<>>
  /\ IdleCalls

SpecRerun == InitRerun /\ [][Next]_vars

----------------------------------------------------------------------------
(* The aggregator on its own: any short raw prediction list is aggregated. *)

MaxPreds == 4

AggConfs == {420, 840, 1200}

RawPredictions == [label : AggLabels, conf : AggConfs]

RawPredictionLists ==
  UNION {[1..n -> RawPredictions] : n \in 0..MaxPreds}

InitAgg ==
  /\ predictions_combined \in RawPredictionLists
  /\ pred_scores = <<>>
  /\ final_predictions = <<>>
  /\ animal_result = NoResult
  /\ phase = "collected"
  /\ accepted = FALSE
  /\ IdlePipeline
  /\ IdleCalls

\* image_processor.py lines 69-90
Aggregate ==
  /\ phase = "collected"
  /\ pred_scores' = PredScores(predictions_combined)
  /\ final_predictions' = FinalPredictions(pred_scores', 1)
  /\ animal_result' = BestPrediction(final_predictions')
  /\ phase' = "aggregated"
  /\ UNCHANGED <<predictions_combined, accepted, pipelineVars, callVars>>

NextAgg == Aggregate

SpecAgg == InitAgg /\ [][NextAgg]_vars

----------------------------------------------------------------------------
(* The aggregator called twice on the same short raw prediction list. *)

MaxRepeatedPreds == 3

InitRepeat ==
  /\ predictions_combined
       \in UNION {[1..n -> RawPredictions] : n \in 0..MaxRepeatedPreds}
  /\ pred_scores = <<>>
  /\ final_predictions = <<>>
  /\ animal_result = NoResult
  /\ phase = "collected"
  /\ accepted = FALSE
  /\ IdlePipeline
  /\ IdleCalls

\* the dict that an earlier call filled is the one the next call appends to
ScoresHeldOver(left_behind) == left_behind

\* line 70: pred_scores = {} binds a new empty dict in every call, whatever
\* an earlier call left behind
NewScores(left_behind) == <<>>

\* lines 69-90 once more, on the same list, after a first call has returned
AggregateAgain ==
  /\ phase = "aggregated"
  /\ ~previous_call.called
  /\ previous_call' = [called |-> TRUE, pred_scores |-> pred_scores,
                       final_predictions |-> final_predictions,
                       result |-> animal_result]
  /\ pred_scores' = ScanPredictions(NewScores(pred_scores), predictions_combined,
                                    1, Len(predictions_combined))
  /\ final_predictions' = FinalPredictions(pred_scores', 1)
  /\ animal_result' = BestPrediction(final_predictions')
  /\ UNCHANGED <<predictions_combined, phase, accepted, pipelineVars,
                 preview_accepted, landscape_predictions, detected_features>>

NextRepeat == Aggregate \/ AggregateAgain

SpecRepeat == InitRepeat /\ [][NextRepeat]_vars

----------------------------------------------------------------------------
(* _predict_landscape on its own.  The classifier raises, or it returns a  *)
(* score vector in which the sceneries valley, lakeside, cliff and         *)
(* mountain_tent score just below, at or just above the landscape          *)
(* threshold, or low; the other classes score as in SceneFlat, so that the *)
(* scores of a vector sum to at most 1.                                    *)

SceneScores == {36, 174, 180, 186}

SceneVectors ==
  {[SceneFlat EXCEPT ![10] = valley, ![11] = lakeside, ![12] = cliff,
                     ![18] = mountain_tent] :
     valley \in SceneScores, lakeside \in SceneScores, cliff \in SceneScores,
     mountain_tent \in SceneScores}

InitLandscape ==
  /\ IdleAggregator
  /\ accepted = FALSE
  /\ IdlePipeline
  /\ IdleCalls

\* lines 98-123: the call returns the detected features
DetectLandscape ==
  /\ landscape_classifier = NotAsked
  /\ \E preds \in SceneVectors :
        /\ landscape_predictions' = DecodePredictions(preds, LandscapeTop)
        /\ detected_features' =
             ScanLandscapePredictions(<<>>, landscape_predictions', 1)
  /\ landscape_classifier' = "returns"
  /\ UNCHANGED <<aggVars, accepted, classifier, pc, image_files, img_index,
                 results, cur, processed_count, source_files, backup_files,
                 tagged_files, step_failures, previous_call, preview_accepted>>

\* lines 98-108 and 125-127: the classifier raises and the call returns []
LandscapeFails ==
  /\ landscape_classifier = NotAsked
  /\ landscape_predictions' = <<>>
  /\ detected_features' = <<>>
  /\ landscape_classifier' = "raises"
  /\ UNCHANGED <<aggVars, accepted, classifier, pc, image_files, img_index,
                 results, cur, processed_count, source_files, backup_files,
                 tagged_files, step_failures, previous_call, preview_accepted>>

NextLandscape == DetectLandscape \/ LandscapeFails

SpecLandscape == InitLandscape /\ [][NextLandscape]_vars

----------------------------------------------------------------------------
(* The threshold gate on its own: any result that _predict_animal can      *)
(* return, a category with a confidence or (None, 0.0), meets the gate.    *)

GateConfidences == {x \in 0..One : x % 6 = 0}

GateInputs ==
  [category : Categories, confidence : GateConfidences] \cup {NoResult}

InitGate ==
  /\ predictions_combined = <<>>
  /\ pred_scores = <<>>
  /\ final_predictions = <<>>
  /\ animal_result \in GateInputs
  /\ phase = "returned"
  /\ accepted = FALSE
  /\ IdlePipeline
  /\ IdleCalls

\* lines 215-219
CheckThreshold ==
  /\ phase = "returned"
  /\ accepted' = GateAccepts(animal_result.category, animal_result.confidence)
  /\ phase' = "gated"
  /\ UNCHANGED <<predictions_combined, pred_scores, final_predictions,
                 animal_result, pipelineVars, callVars>>

\* image_tester.py lines 37, 64 and 92: the literal 0.35
PreviewThreshold == 420

\* 'accepted': confidence > 0.35, and the status lines of the preview
PreviewAccepts(animal_name, confidence) == confidence > PreviewThreshold

\* image_tester.py lines 82-93: test_all records the flag for the result
\* that _predict_animal returned, the same result the gate has judged
PreviewResult ==
  /\ phase = "gated"
  /\ preview_accepted' =
       PreviewAccepts(animal_result.category, animal_result.confidence)
  /\ phase' = "previewed"
  /\ UNCHANGED <<predictions_combined, pred_scores, final_predictions,
                 animal_result, accepted, pipelineVars, previous_call,
                 landscape_predictions, detected_features>>

NextGate == CheckThreshold \/ PreviewResult

SpecGate == InitGate /\ [][NextGate]_vars

----------------------------------------------------------------------------
(* Vocabulary of the properties of the aggregator *)

\* keyword occurs in label when letter case is ignored on both
OccursIgnoringCase(keyword, label) == Contains(Lower(label), Lower(keyword))

CategoryIndex(c) ==
  CHOOSE k \in 1..Len(ANIMAL_CATEGORIES) : ANIMAL_CATEGORIES[k].category = c

\* label matches category c: some keyword of c occurs in it, case ignored
MatchesCategoryTable ==
  [label \in KnownLabels |->
     [c \in Categories |->
        \E j \in 1..Len(ANIMAL_CATEGORIES[CategoryIndex(c)].similar_labels) :
           OccursIgnoringCase(
             ANIMAL_CATEGORIES[CategoryIndex(c)].similar_labels[j], label)]]

MatchesCategory(label, c) == MatchesCategoryTable[label][c]

\* positions of the raw prediction list whose label matches category c
MatchingPositions(preds, c) ==
  {i \in 1..Len(preds) : MatchesCategory(preds[i].label, c)}

RECURSIVE SumConf(_, _)
SumConf(preds, T) ==
  IF T = {} THEN 0
  ELSE LET t == CHOOSE x \in T : TRUE
       IN preds[t].conf + SumConf(preds, T \ {t})

\* T holds k largest confidences among the positions I
IsLargest(preds, T, I, k) ==
  /\ T \subseteq I
  /\ Cardinality(T) = k
  /\ \A t \in T : \A j \in I \ T : preds[t].conf >= preds[j].conf

Keys(d) == {d[i].category : i \in 1..Len(d)}

ValueOf(d, c) == d[CHOOSE i \in 1..Len(d) : d[i].category = c]

Aggregated == phase = "aggregated"

\* C1: every category with at least one matching prediction gets as its
\* aggregated score the arithmetic mean of its k largest matching
\* confidences, k = min(3, number of matching confidences); smaller
\* matching confidences do not influence the score.
C1_MeanOfTopThree ==
  Aggregated =>
    \A c \in Categories :
      LET I == MatchingPositions(predictions_combined, c)
          k == Min(3, Cardinality(I))
      IN I # {} =>
           /\ c \in Keys(final_predictions)
           /\ \E T \in SUBSET I :
                 /\ IsLargest(predictions_combined, T, I, k)
                 /\ ValueOf(final_predictions, c).score * k
                      = SumConf(predictions_combined, T)

\* a category with more than three matching confidences whose mean over all
\* of them differs from the aggregated score
C1_Witness ==
  /\ Aggregated
  /\ \E c \in Keys(final_predictions) :
        LET I == MatchingPositions(predictions_combined, c)
        IN /\ Cardinality(I) > 3
           /\ ValueOf(final_predictions, c).score * Cardinality(I)
                # SumConf(predictions_combined, I)

\* the test of the code and the case-insensitive test agree on every keyword
\* of every category for this label
KeywordTestsAgree ==
  [label \in KnownLabels |->
     \A k \in 1..Len(ANIMAL_CATEGORIES) :
       \A j \in 1..Len(ANIMAL_CATEGORIES[k].similar_labels) :
         KeywordInLabel(ANIMAL_CATEGORIES[k].similar_labels[j], label)
           <=> OccursIgnoringCase(ANIMAL_CATEGORIES[k].similar_labels[j], label)]

\* C5: label-to-category matching is a case-insensitive substring test: a
\* prediction contributes to category C iff some keyword of C occurs in its
\* label with letter case ignored on both, and the test applied to each
\* single keyword ignores case on both sides as well (a keyword such as
\* African_elephant is found in the label african_elephant).
C5_CaseInsensitiveMatch ==
  Aggregated =>
    /\ \A c \in Categories :
         c \in Keys(pred_scores) <=> MatchingPositions(predictions_combined, c) # {}
    /\ \A i \in 1..Len(predictions_combined) :
         KeywordTestsAgree[predictions_combined[i].label]

\* C6: when no raw label matches any keyword of any category the aggregated
\* score map is empty and the result is (None, 0.0); when at least one
\* prediction matches, the result names a category.
C6_NoneIffNoMatch ==
  Aggregated =>
    LET matched == \E c \in Categories :
                      MatchingPositions(predictions_combined, c) # {}
    IN /\ ~matched => final_predictions = <<>> /\ animal_result = NoResult
       /\ matched => animal_result.category \in Categories

\* a non-empty raw list without a single match, aggregated to (None, 0.0)
C6_Witness ==
  /\ Aggregated
  /\ predictions_combined # <<>>
  /\ \A c \in Categories : MatchingPositions(predictions_combined, c) = {}
  /\ animal_result = NoResult

\* position of the first prediction that matches category c
FirstSeen(preds, c) ==
  CHOOSE i \in MatchingPositions(preds, c) :
    \A j \in MatchingPositions(preds, c) : i <= j

\* c received its first matching prediction before d did
SeenBefore(preds, c, d) ==
  \/ FirstSeen(preds, c) < FirstSeen(preds, d)
  \/ /\ FirstSeen(preds, c) = FirstSeen(preds, d)
     /\ CategoryIndex(c) < CategoryIndex(d)

\* C7: the returned category has a maximal aggregated score, and among the
\* categories that share the maximal score it is the first-seen one.
C7_ArgmaxFirstSeen ==
  (Aggregated /\ animal_result.category # None) =>
    LET c == animal_result.category IN
      /\ c \in Keys(final_predictions)
      /\ animal_result.confidence = ValueOf(final_predictions, c).score
      /\ \A d \in Keys(final_predictions) \ {c} :
           \/ ValueOf(final_predictions, d).score < animal_result.confidence
           \/ /\ ValueOf(final_predictions, d).score = animal_result.confidence
              /\ SeenBefore(predictions_combined, c, d)

\* a tie for the maximal score won by a category that comes later in the
\* category map than the tied one, because it was seen first
C7_Witness ==
  /\ Aggregated
  /\ animal_result.category # None
  /\ \E d \in Keys(final_predictions) \ {animal_result.category} :
        /\ ValueOf(final_predictions, d).score = animal_result.confidence
        /\ CategoryIndex(d) < CategoryIndex(animal_result.category)

\* C8: with every input confidence in [0,1], every aggregated score and the
\* confidence of the result lie in [0,1].
C8_ScoresInUnitInterval ==
  (/\ Aggregated
   /\ \A i \in 1..Len(predictions_combined) :
         predictions_combined[i].conf \in 0..One)
  => /\ \A i \in 1..Len(final_predictions) :
          final_predictions[i].score \in 0..One
     /\ animal_result.confidence \in 0..One

\* a category aggregated from several confidences whose sum exceeds 1
C8_Witness ==
  /\ Aggregated
  /\ \E i \in 1..Len(pred_scores) :
        /\ Len(pred_scores[i].scores) > 1
        /\ SeqSum(pred_scores[i].scores) > One
        /\ pred_scores[i].category = animal_result.category

\* C9: a category is a key of the aggregated maps only if at least one raw
\* prediction matched it; its list of confidences is never empty and holds
\* only confidences of matching predictions.
C9_KeysOnlyIfMatched ==
  Aggregated =>
    /\ \A i \in 1..Len(pred_scores) :
         LET I == MatchingPositions(predictions_combined, pred_scores[i].category)
         IN /\ I # {}
            /\ pred_scores[i].scores # <<>>
            /\ \A j \in 1..Len(pred_scores[i].scores) :
                 \E p \in I : predictions_combined[p].conf = pred_scores[i].scores[j]
    /\ \A i \in 1..Len(final_predictions) :
         /\ final_predictions[i].category \in Keys(pred_scores)
         /\ MatchingPositions(predictions_combined,
                              final_predictions[i].category) # {}

\* some predictions matched, one did not match anything, and the other
\* categories stayed out of the map
C9_Witness ==
  /\ Aggregated
  /\ pred_scores # <<>>
  /\ Keys(pred_scores) # Categories
  /\ \E i \in 1..Len(predictions_combined) :
        \A c \in Categories : ~MatchesCategory(predictions_combined[i].label, c)

----------------------------------------------------------------------------
(* Properties of the threshold gate, the predictor and the batch *)

\* the threshold configured for a category, the default one without an entry
ConfiguredThreshold(c) ==
  IF c = "lion_cub" THEN 360 ELSE IF c = "bird" THEN 480 ELSE 420

\* C2: the gate accepts a result iff its confidence is strictly greater than
\* the threshold configured for its category (the default threshold when the
\* category has no entry); a confidence equal to the threshold is rejected.
C2_StrictThreshold ==
  phase = "gated" =>
    (accepted <=>
       animal_result.confidence > ConfiguredThreshold(animal_result.category))

\* a category with an entry of its own, met exactly, is rejected
C2_Witness ==
  /\ phase = "gated"
  /\ animal_result = [category |-> "bird", confidence |-> 480]
  /\ ~accepted

\* the predictions reported by the classifiers that do not fail on the
\* image, in the order of the models
RECURSIVE RemainingPredictions(_, _)
RemainingPredictions(behaviour, m) ==
  IF m > Len(Models) THEN <<>>
  ELSE (IF ClassifierOutcome[behaviour[Models[m]]].raised THEN <<>>
        ELSE ExtendWithDecoded(<<>>, ClassifierOutcome[behaviour[Models[m]]].preds, 1))
       \o RemainingPredictions(behaviour, m + 1)

SomeClassifierFails ==
  \E m \in ModelNames :
     classifier[m] # NotAsked /\ ClassifierOutcome[classifier[m]].raised

\* C3: when a classifier fails on an image it contributes no predictions and
\* the result of the image is the aggregate of the predictions of the
\* remaining classifiers.
C3_FailedClassifierTolerated ==
  (pc = "predict_landscape" /\ SomeClassifierFails) =>
    animal_result =
      BestPrediction(FinalPredictions(PredScores(RemainingPredictions(classifier, 1)), 1))

Range(seq) == {seq[i] : i \in 1..Len(seq)}

\* one result per listed image file, in the order of the list, and the list
\* holds each image file of the directory once and nothing else
OneResultPerImage ==
  /\ pc # "glob" =>
       /\ Len(results) = img_index - 1
       /\ Len(results) <= Len(image_files)
       /\ \A i \in 1..Len(results) : results[i].original_name = image_files[i]
       /\ Cardinality(Range(image_files)) = Len(image_files)
       /\ NotesFile \notin Range(image_files)
       /\ \A f \in source_files : f.original >= 1 => f \in Range(image_files)
  /\ pc = "returned" => Len(results) = Len(image_files)

Failed(i) == ~results[i].success /\ results[i].error # None

\* C4 as stated: one result per image file in iteration order; an image
\* whose backup, prediction, tagging or rename fails has success=false and an
\* error recorded, and the later images are still processed.
C4_AnyFailureFailsImage ==
  /\ OneResultPerImage
  /\ \A i \in 1..Len(results) :
        (\/ step_failures[i].backup = "failed"
         \/ step_failures[i].animal = "failed"
         \/ step_failures[i].tagging = "failed"
         \/ step_failures[i].rename = "failed") => Failed(i)

\* C4 amended: one result per image file in iteration order; an image whose
\* backup, animal prediction or rename fails has success=false and an error
\* recorded; a failure of the metadata tagging is only logged, the image is
\* still renamed and its result is success=true without an error when the
\* rename succeeds; the later images are still processed.
C4_FailureFailsImageButTagging ==
  /\ OneResultPerImage
  /\ \A i \in 1..Len(results) :
        /\ (\/ step_failures[i].backup = "failed"
            \/ step_failures[i].animal = "failed"
            \/ step_failures[i].rename = "failed") => Failed(i)
        /\ (step_failures[i].tagging = "failed" /\ step_failures[i].rename = "ok")
             => results[i].success /\ results[i].error = None

\* a batch whose first image failed and whose second image, processed all
\* the same, succeeded although its tagging failed
C4_Witness ==
  /\ pc = "returned"
  /\ Len(results) >= 2
  /\ step_failures[1].rename = "failed"
  /\ Failed(1)
  /\ step_failures[2].tagging = "failed"
  /\ results[2].success

\* the ten best-scored predictions of a score vector
TopTen(vector) ==
  {[label |-> IMAGENET_LABELS[c], conf |-> vector[c]] :
     c \in {c \in 1..NumClasses :
              Cardinality({d \in 1..NumClasses : vector[d] > vector[c]}) < 10}}

TopTenOfRun ==
  [outcome \in DOMAIN ClassifierOutcome |->
     [v \in 1..4 |->
        IF ClassifierOutcome[outcome].raised THEN {}
        ELSE TopTen(ClassifierOutcome[outcome].preds[v])]]

\* C10: the raw prediction list fed to the aggregator consists of the top-10
\* predictions of each of the three classifiers resnet, efficient and dense
\* on each of the four image variants, each once, and of nothing else.
C10_UnionOfAllRuns ==
  (pc = "predict_landscape" /\ phase = "aggregated") =>
    /\ Len(predictions_combined) = 3 * 4 * 10
    /\ \A m \in 1..3 : \A v \in 1..4 :
         LET first == ((m - 1) * 4 + (v - 1)) * 10
         IN {predictions_combined[first + r] : r \in 1..10}
              = TopTenOfRun[classifier[<<"resnet", "efficient", "dense">>[m]]][v]

\* three classifiers that report different things on the four variants, one
\* of them ranking every animal below its ten best classes
C10_Witness ==
  /\ pc = "predict_landscape"
  /\ phase = "aggregated"
  /\ classifier = [resnet |-> "lion", efficient |-> "mixed", dense |-> "scene"]
  /\ Len(predictions_combined) = 120

----------------------------------------------------------------------------
(* The sequence counter *)

\* the finished calls of process_single_image in which the gate accepted
PassedGate ==
  {i \in 1..Len(step_failures) : step_failures[i].gate = "accepted"}

\* this step finishes a call of process_single_image
CallReturns == Len(step_failures') = Len(step_failures) + 1

LastSteps == step_failures'[Len(step_failures')]

\* C11: processed_count starts at 0 and never decreases; a call of
\* process_single_image increases it by exactly 1 when the image passes the
\* threshold gate and leaves it unchanged when the backup fails or the image
\* is rejected, and no other step changes it; so it always equals the number
\* of images that passed the gate.
C11_CounterCountsAccepted ==
  /\ processed_count = 0
  /\ [][/\ processed_count' >= processed_count
        /\ (CallReturns /\ LastSteps.gate = "accepted")
             => processed_count' = processed_count + 1
        /\ (CallReturns /\ LastSteps.gate # "accepted")
             => /\ LastSteps.backup = "failed" \/ LastSteps.gate = "rejected"
                /\ processed_count' = processed_count
        /\ ~CallReturns => processed_count' = processed_count]_vars
  /\ [](processed_count = Cardinality(PassedGate))

\* a run in which one image passed the gate, although its rename failed,
\* and the backup of the other image failed
C11_Witness ==
  /\ pc = "returned"
  /\ Len(step_failures) = 2
  /\ \E i, j \in 1..2 :
        /\ step_failures[i].gate = "accepted"
        /\ step_failures[i].rename = "failed"
        /\ step_failures[j].backup = "failed"
  /\ processed_count = 1

----------------------------------------------------------------------------
(* Failures inside _predict_animal *)

\* the values _predict_animal can hand to its caller
CategoryConfidencePairs ==
  [category : Categories, confidence : 0..One] \cup {NoResult}

\* C12: _predict_animal never raises: whatever fails inside it, a
\* classifier included, it returns a (category, confidence) pair to its
\* caller, which is (None, 0.0) when something failed, and the caller goes on
\* to the landscape prediction and the gate.
C12_PredictAnimalNeverRaises ==
  /\ pc \in {"predict_landscape", "gate"} =>
       /\ animal_result \in CategoryConfidencePairs
       /\ (phase = "raised" <=> SomeClassifierFails)
       /\ phase = "raised" => animal_result = NoResult
  /\ \A i \in 1..Len(results) :
        step_failures[i].animal = "failed" =>
          /\ results[i].animal = None
          /\ results[i].confidence = <<0>>
          /\ step_failures[i].landscape # "not_run"
          /\ step_failures[i].gate = "rejected"
          /\ results[i].error = "Low confidence prediction"

\* the last classifier raised after the first two had ranked a lion first
C12_Witness ==
  /\ pc = "predict_landscape"
  /\ classifier = [resnet |-> "lion", efficient |-> "lion", dense |-> "raises"]
  /\ Len(predictions_combined) = 80
  /\ animal_result = NoResult

----------------------------------------------------------------------------
(* The aggregation repeated *)

----------------------------------------------------------------------------
(* The preview of image_tester.py against the gate *)

\* C14: the accepted flag that the preview gives to a result is true exactly
\* when the confidence strictly exceeds the threshold configured for the
\* category of the result (the default threshold when the category has no
\* entry), so it agrees with the decision of the threshold gate on the same
\* result.
C14_PreviewAgreesWithGate ==
  phase = "previewed" =>
    /\ preview_accepted <=>
         animal_result.confidence > ConfiguredThreshold(animal_result.category)
    /\ preview_accepted <=> accepted

----------------------------------------------------------------------------
(* What the gate decides for the result of an image *)

\* the predictions of the image of result r were made
Predicted(r) == r.confidence # <<>>

\* the gate, on the category and confidence recorded in result r
GateDecision(r) ==
  /\ r.animal # None
  /\ r.confidence[1] > ConfiguredThreshold(r.animal)

\* C15: a result has success=true only if the gate accepted the image, and
\* then new_name is set, error is None and the category is not None; an image
\* that the gate rejects is neither tagged nor renamed, and its result has
\* success=false, new_name=None and the error 'Low confidence prediction'.
C15_GateDrivesRenameAndTag ==
  \A i \in 1..Len(results) :
     LET r == results[i] IN
     /\ r.success =>
          /\ Predicted(r) /\ GateDecision(r)
          /\ r.new_name # <<>>
          /\ r.error = None
          /\ r.animal # None
     /\ (Predicted(r) /\ ~GateDecision(r)) =>
          /\ ~r.success
          /\ r.new_name = <<>>
          /\ r.error = "Low confidence prediction"
          /\ r.original_name \in source_files
          /\ r.original_name \notin tagged_files

\* a run with an image renamed after the gate accepted it and an image with
\* a category of too low a confidence, left under its name
C15_Witness ==
  /\ pc = "returned"
  /\ \E i, j \in 1..Len(results) :
        /\ results[i].success
        /\ results[i].new_name[1] \in source_files
        /\ results[j].animal = "elephant"
        /\ ~GateDecision(results[j])
        /\ results[j].error = "Low confidence prediction"
        /\ results[j].original_name \in source_files

----------------------------------------------------------------------------
(* The backup comes first *)

\* this step tags or renames a file of the source directory
TagsOrRenames == source_files' # source_files \/ tagged_files' # tagged_files

NoClassifierAsked ==
  /\ classifier = [m \in ModelNames |-> NotAsked]
  /\ landscape_classifier = NotAsked

\* C16: a file is tagged or renamed only in a call of process_single_image
\* that has written the backup copy of that file before; a call whose backup
\* fails returns success=false with the error 'Backup failed', runs no
\* classifier, leaves the file untagged under its name and leaves the sequence
\* counter as it was.
C16_BackupBeforeTagOrRename ==
  /\ [][/\ TagsOrRenames =>
             /\ pc = "gate"
             /\ cur.original_name = image_files[img_index]
             /\ cur.original_name \in backup_files
             /\ (source_files \ source_files') \subseteq {cur.original_name}
        /\ (CallReturns /\ LastSteps.backup = "failed") =>
             /\ NoClassifierAsked /\ NoClassifierAsked'
             /\ image_files[img_index] \notin backup_files'
             /\ UNCHANGED <<source_files, tagged_files, processed_count>>]_vars
  /\ [](\A i \in 1..Len(results) :
          step_failures[i].backup = "failed" <=> results[i].error = "Backup failed")
  /\ [](\A i \in 1..Len(results) :
          results[i].error = "Backup failed" =>
            /\ ~results[i].success
            /\ results[i].new_name = <<>>
            /\ ~Predicted(results[i])
            /\ results[i].landscape_features = <<>>
            /\ results[i].original_name \in source_files
            /\ results[i].original_name \notin tagged_files)

\* a run in which the backup of one image failed and the other image was
\* backed up, tagged and renamed
C16_Witness ==
  /\ pc = "returned"
  /\ \E i, j \in 1..Len(results) :
        /\ results[i].error = "Backup failed"
        /\ results[i].original_name \notin backup_files
        /\ results[j].success
        /\ results[j].original_name \in backup_files
        /\ results[j].new_name[1] \in source_files \cap tagged_files

----------------------------------------------------------------------------
(* New names against the files of the directory *)

LastResult == results'[Len(results')]

\* C17: whatever earlier runs have left in the directory, the new name
\* generated for an image differs from the name of every other file that is
\* in the directory when the image is renamed, so no rename replaces another
\* file, and the names generated within one run differ from each other.
C17_RenameNeverReplaces ==
  /\ [][(CallReturns /\ LastResult.success) =>
          /\ LastResult.new_name[1] \notin source_files \ {LastResult.original_name}
          /\ Cardinality(source_files') = Cardinality(source_files)]_vars
  /\ [](\A i, j \in 1..Len(results) :
          (i # j /\ results[i].success /\ results[j].success)
            => results[i].new_name # results[j].new_name)

----------------------------------------------------------------------------
(* One confidence per prediction and category *)

\* the confidences of the predictions whose label matches category c, in
\* the order of the list
MatchingConfidences(preds, c) ==
  LET matching == SelectSeq(preds, LAMBDA p : MatchesCategory(p.label, c))
  IN [j \in 1..Len(matching) |-> matching[j].conf]

\* C18: a prediction adds its confidence to the list of a category at most
\* once, also when its label contains several keywords of the category: the
\* list of a category holds one confidence for each matching prediction, in
\* their order, and never more confidences than there are predictions; the
\* same prediction may add to the lists of several categories.
C18_OncePerCategory ==
  Aggregated =>
    \A i \in 1..Len(pred_scores) :
       /\ pred_scores[i].scores
            = MatchingConfidences(predictions_combined, pred_scores[i].category)
       /\ Len(pred_scores[i].scores)
            = Cardinality(MatchingPositions(predictions_combined,
                                            pred_scores[i].category))
       /\ Len(pred_scores[i].scores) <= Len(predictions_combined)

\* a single prediction whose label holds two keywords of one category and a
\* keyword of another: each of the two categories got its confidence once
C18_Witness ==
  /\ Aggregated
  /\ Len(predictions_combined) = 1
  /\ KeywordsFound[predictions_combined[1].label][CategoryIndex("lion_cub")] >= 2
  /\ Keys(pred_scores) = {"lion", "lion_cub"}
  /\ \A i \in 1..2 : pred_scores[i].scores = <<predictions_combined[1].conf>>

----------------------------------------------------------------------------
(* The landscape features *)

LandscapeIndex(c) ==
  CHOOSE k \in 1..Len(LANDSCAPE_CATEGORIES) : LANDSCAPE_CATEGORIES[k].category = c

\* some prediction of the list has a lower-cased label that contains a
\* keyword of category c and a confidence above 0.15
SeenAboveThreshold(preds, c) ==
  \E i \in 1..Len(preds) :
     /\ LandscapeMatchTable[preds[i].label][LandscapeIndex(c)]
     /\ preds[i].conf > 180

\* C19: the list returned by _predict_landscape holds each landscape category
\* at most once; it holds a category iff one of the top-15 predictions has a
\* lower-cased label containing a keyword of the category and a confidence
\* strictly above the landscape threshold 0.15 (a confidence equal to the
\* threshold adds nothing); when the call fails the list is empty.
C19_LandscapeFeatures ==
  /\ landscape_classifier = "raises" => detected_features = <<>>
  /\ landscape_classifier = "returns" =>
       /\ Len(landscape_predictions) = 15
       /\ Cardinality(Range(detected_features)) = Len(detected_features)
       /\ \A k \in 1..Len(LANDSCAPE_CATEGORIES) :
            LET c == LANDSCAPE_CATEGORIES[k].category
            IN c \in Range(detected_features)
                 <=> SeenAboveThreshold(landscape_predictions, c)

\* two predictions above the threshold match the category mountain, which is
\* listed once; the valley prediction is at the threshold and adds nothing;
\* the lakeside prediction is above it and adds lake
C19_Witness ==
  /\ landscape_classifier = "returns"
  /\ \E i, j, v \in 1..Len(landscape_predictions) :
        /\ landscape_predictions[i] = [label |-> <<"c","l","i","f","f">>, conf |-> 186]
        /\ landscape_predictions[j].label = <<"m","o","u","n","t","a","i","n","_","t","e","n","t">>
        /\ landscape_predictions[j].conf = 186
        /\ landscape_predictions[v] = [label |-> <<"v","a","l","l","e","y">>, conf |-> 180]
  /\ Range(detected_features) = {"mountain", "lake"}
  /\ Len(detected_features) = 2

====
